---- MODULE Spec2Model ----
(***************************************************************************)
(* A model of package str (src/str/str.go): character- and word-oriented   *)
(* string functions.  A Go string is modelled as its sequence of bytes, a  *)
(* character as its Unicode code point, and every conversion between the   *)
(* two ([]rune(s), string(rr), strings.Split(s, ""), range s) is computed  *)
(* through the UTF-8 encoding.  A Go int is modelled as a two's-complement *)
(* integer of IntBits bits.  Go indices are 0-based; sequences here are    *)
(* 1-based, so Go's cc[i] is cc[i + 1] unless a definition says otherwise. *)
(***************************************************************************)
EXTENDS Integers, Sequences, FiniteSets, TLC

VARIABLES
    s,      \* the text the caller holds: a sequence of code points (for
            \* PadToLongest, the slice of texts the caller holds)
    op,     \* the function the caller has called ("none" before the call)
    arg,    \* the other arguments of that call
    ret     \* what that call returned

vars == <<s, op, arg, ret>>

(***************************************************************************)
(* Bounds of the model.                                                    *)
(***************************************************************************)
IntBits == 4
MaxWordsLen == 5
MaxSliceLen == 3
MaxNthLen == 4
MaxSubLen == 2
MaxSplitLen == 4
MaxSepLen == 2
MaxSetLen == 4
MaxPadLen == 2
MaxPadCount == 3

(***************************************************************************)
(* The Go int, scaled to IntBits bits: arithmetic wraps around.            *)
(***************************************************************************)
MinInt == -(2 ^ (IntBits - 1))
MaxInt == (2 ^ (IntBits - 1)) - 1
GoInt == MinInt .. MaxInt
Wrap(x) == ((x - MinInt) % (2 ^ IntBits)) + MinInt

\* The absolute value as mathematics has it (used by the properties only).
MathAbs(n) == IF n < 0 THEN 0 - n ELSE n

SeqsUpTo(A, n) == UNION {[1 .. k -> A] : k \in 0 .. n}

(***************************************************************************)
(* UTF-8: string(rune), string([]rune), []rune(string), strings.Split(s,"")*)
(***************************************************************************)
UTF8(c) ==
    IF c < 128 THEN <<c>>
    ELSE IF c < 2048 THEN <<192 + (c \div 64), 128 + (c % 64)>>
    ELSE IF c < 65536 THEN
        <<224 + (c \div 4096), 128 + ((c \div 64) % 64), 128 + (c % 64)>>
    ELSE <<240 + (c \div 262144), 128 + ((c \div 4096) % 64),
           128 + ((c \div 64) % 64), 128 + (c % 64)>>

RECURSIVE Str(_)
Str(rr) == IF rr = <<>> THEN <<>> ELSE UTF8(Head(rr)) \o Str(Tail(rr))

IsCont(b, i) == i <= Len(b) /\ b[i] >= 128 /\ b[i] <= 191

\* The rune that starts at byte i (1-based) of b and its width in bytes; a
\* byte that starts no well-formed sequence decodes to U+FFFD, width 1.
DecodeRune(b, i) ==
    LET b0 == b[i] IN
    IF b0 < 128 THEN [r |-> b0, size |-> 1]
    ELSE IF b0 >= 194 /\ b0 <= 223 /\ IsCont(b, i + 1) THEN
        [r |-> ((b0 - 192) * 64) + (b[i + 1] - 128), size |-> 2]
    ELSE IF b0 >= 224 /\ b0 <= 239 /\ IsCont(b, i + 1) /\ IsCont(b, i + 2) THEN
        [r |-> ((b0 - 224) * 4096) + ((b[i + 1] - 128) * 64) + (b[i + 2] - 128),
         size |-> 3]
    ELSE IF b0 >= 240 /\ b0 <= 244 /\ IsCont(b, i + 1) /\ IsCont(b, i + 2)
                                   /\ IsCont(b, i + 3) THEN
        [r |-> ((b0 - 240) * 262144) + ((b[i + 1] - 128) * 4096)
                 + ((b[i + 2] - 128) * 64) + (b[i + 3] - 128),
         size |-> 4]
    ELSE [r |-> 65533, size |-> 1]

RECURSIVE RunesFrom(_, _)
RunesFrom(b, i) ==
    IF i > Len(b) THEN <<>>
    ELSE LET d == DecodeRune(b, i) IN <<d.r>> \o RunesFrom(b, i + d.size)

\* []rune(s)
Runes(b) == RunesFrom(b, 1)

RECURSIVE ExplodeFrom(_, _)
ExplodeFrom(b, i) ==
    IF i > Len(b) THEN <<>>
    ELSE LET d == DecodeRune(b, i) IN
         <<SubSeq(b, i, i + d.size - 1)>> \o ExplodeFrom(b, i + d.size)

\* strings.Split(s, ""): one string per character
Explode(b) == ExplodeFrom(b, 1)

\* strings.Contains(str, sub)
Contains(str, sub) ==
    \E k \in 0 .. (Len(str) - Len(sub)) : SubSeq(str, k + 1, k + Len(sub)) = sub

\* unicode.IsSpace
IsSpace(r) ==
    r \in ({9, 10, 11, 12, 13, 32, 133, 160, 5760, 8232, 8233, 8239, 8287, 12288}
           \cup (8192 .. 8202))

\* strings.TrimSpace(c) == ""
TrimsToEmpty(c) == \A k \in DOMAIN Runes(c) : IsSpace(Runes(c)[k])

Len_(b) == Len(Runes(b))

(***************************************************************************)
(* Words and WordCount                                                     *)
(***************************************************************************)
\* !?,.'"[]()*~{}:;-<>+=|%&@#$^\ and the backtick
grammar ==
    <<33, 63, 44, 46, 39, 34, 91, 93, 40, 41, 42, 126, 123, 125, 58, 59, 45,
      60, 62, 43, 61, 124, 37, 38, 64, 35, 36, 94, 92, 96>>

isGrammar(c) == Contains(grammar, c)

\* en dash, em dash and forward slash, as bytes
splitters == <<226, 128, 147, 226, 128, 148, 47>>

\* A plausible slip: only whitespace separates words.
isBoundaryCharSpaceOnly(c) == TrimsToEmpty(c)

isBoundaryChar(c) ==
    IF Contains(splitters, c) THEN TRUE
    ELSE IF TrimsToEmpty(c) THEN TRUE
    ELSE FALSE

\* i is the 1-based position of the character looked at
boundaryNext(cc, i) ==
    IF i + 1 = Len(cc) + 1 THEN TRUE ELSE isBoundaryChar(cc[i + 1])

\* A plausible slip: the lookahead stops at the next character instead of
\* walking to the end of the run of grammar marks.
grammarOnBoundaryOneAhead(cc, i, precededByBoundary) ==
    IF ~isGrammar(cc[i]) THEN FALSE
    ELSE IF precededByBoundary THEN TRUE
    ELSE boundaryNext(cc, i)

\* A plausible slip: every grammar mark is dropped, as WordCount skips them.
grammarOnBoundaryAlways(cc, i, precededByBoundary) == isGrammar(cc[i])

\* A plausible slip: a grammar mark directly after a boundary is not dropped
\* unless a boundary follows its run as well.
RECURSIVE grammarOnBoundaryIgnoresPreceding(_, _, _)
grammarOnBoundaryIgnoresPreceding(cc, i, precededByBoundary) ==
    IF ~isGrammar(cc[i]) THEN FALSE
    ELSE IF boundaryNext(cc, i) THEN TRUE
    ELSE grammarOnBoundaryIgnoresPreceding(cc, i + 1, precededByBoundary)

RECURSIVE grammarOnBoundary(_, _, _)
grammarOnBoundary(cc, i, precededByBoundary) ==
    IF ~isGrammar(cc[i]) THEN FALSE
    ELSE IF precededByBoundary THEN TRUE
    ELSE IF boundaryNext(cc, i) THEN TRUE
    ELSE grammarOnBoundary(cc, i + 1, precededByBoundary)

\* A plausible slip: the scan starts as if inside a word.
WordsInitInsideWord ==
    [words |-> <<>>, precededByBoundary |-> FALSE, idx |-> -1, panic |-> FALSE]

\* The state of the scan in Words before its loop.
WordsInit == [words |-> <<>>, precededByBoundary |-> TRUE, idx |-> -1, panic |-> FALSE]

\* A plausible slip: a grammar mark that is kept becomes a word of its own.
WordsStepMarkOwnWord(cc, i, st) ==
    LET c == cc[i] IN
    IF st.panic THEN st
    ELSE IF grammarOnBoundary(cc, i, st.precededByBoundary) THEN st
    ELSE IF isBoundaryChar(c) THEN [st EXCEPT !.precededByBoundary = TRUE]
    ELSE IF st.precededByBoundary \/ isGrammar(c) THEN
        [st EXCEPT !.words = Append(@, c), !.precededByBoundary = isGrammar(c),
                   !.idx = @ + 1]
    ELSE IF st.idx < 0 \/ st.idx >= Len(st.words) THEN [st EXCEPT !.panic = TRUE]
    ELSE [st EXCEPT !.words[st.idx + 1] = @ \o c, !.precededByBoundary = FALSE]

\* One iteration of the loop of Words, at 1-based position i.  idx is Go's
\* 0-based index into words; words[idx] outside words is a run-time panic.
WordsStep(cc, i, st) ==
    LET c == cc[i] IN
    IF st.panic THEN st
    ELSE IF grammarOnBoundary(cc, i, st.precededByBoundary) THEN st
    ELSE IF isBoundaryChar(c) THEN [st EXCEPT !.precededByBoundary = TRUE]
    ELSE IF st.precededByBoundary THEN
        [st EXCEPT !.words = Append(@, c), !.precededByBoundary = FALSE, !.idx = @ + 1]
    ELSE IF st.idx < 0 \/ st.idx >= Len(st.words) THEN [st EXCEPT !.panic = TRUE]
    ELSE [st EXCEPT !.words[st.idx + 1] = @ \o c, !.precededByBoundary = FALSE]

\* The state of the scan after its first k iterations.
RECURSIVE WordsScan(_, _)
WordsScan(cc, k) ==
    IF k = 0 THEN WordsInit ELSE WordsStep(cc, k, WordsScan(cc, k - 1))

Words(b) ==
    LET cc == Explode(b)
        st == WordsScan(cc, Len(cc))
    IN  [kind |-> IF st.panic THEN "panic" ELSE "ok", val |-> st.words]

\* A plausible slip: a grammar mark is counted like any other character.
WordCountStepNoSkip(c, st) ==
    IF isBoundaryChar(c) THEN [st EXCEPT !.precededByBoundary = TRUE]
    ELSE IF st.precededByBoundary THEN
        [count |-> st.count + 1, precededByBoundary |-> FALSE]
    ELSE st

\* One iteration of the loop of WordCount.
WordCountStep(c, st) ==
    IF isGrammar(c) THEN st
    ELSE IF isBoundaryChar(c) THEN [st EXCEPT !.precededByBoundary = TRUE]
    ELSE IF st.precededByBoundary THEN
        [count |-> st.count + 1, precededByBoundary |-> FALSE]
    ELSE st

RECURSIVE WordCountScan(_, _)
WordCountScan(cc, k) ==
    IF k = 0 THEN [count |-> 0, precededByBoundary |-> TRUE]
    ELSE WordCountStep(cc[k], WordCountScan(cc, k - 1))

WordCount(b) == LET cc == Explode(b) IN WordCountScan(cc, Len(cc)).count

(***************************************************************************)
(* The calls on Words and WordCount                                        *)
(***************************************************************************)
\* a, apostrophe, space, forward slash, em dash, U+4E16
WordsAlphabet == {97, 39, 32, 47, 8212, 19990}

InitWords ==
    /\ s \in SeqsUpTo(WordsAlphabet, MaxWordsLen)
    /\ op = "none"
    /\ arg = <<>>
    /\ ret = <<>>

CallWords ==
    /\ op = "none"
    /\ op' = "Words"
    /\ arg' = <<>>
    /\ ret' = Words(Str(s))
    /\ UNCHANGED s

CallWordCount ==
    /\ op = "none"
    /\ op' = "WordCount"
    /\ arg' = <<>>
    /\ ret' = WordCount(Str(s))
    /\ UNCHANGED s

NextWords == CallWords \/ CallWordCount

SpecWords == InitWords /\ [][NextWords]_vars

(***************************************************************************)
(* The loop of Words, one iteration at a time                              *)
(***************************************************************************)
\* What the forward scan of grammarOnBoundary, started at 1-based position
\* i, reads: top is the highest position of cc it has indexed (cc[i] in
\* grammarOnBoundary, cc[i] after the i++ of boundaryNext), panic whether it
\* has indexed a position outside cc, result what it returns otherwise.
RECURSIVE grammarOnBoundaryReads(_, _, _)
grammarOnBoundaryReads(cc, i, precededByBoundary) ==
    IF i > Len(cc) THEN [result |-> FALSE, top |-> i, panic |-> TRUE]
    ELSE IF ~isGrammar(cc[i]) THEN [result |-> FALSE, top |-> i, panic |-> FALSE]
    ELSE IF precededByBoundary THEN [result |-> TRUE, top |-> i, panic |-> FALSE]
    ELSE IF i + 1 = Len(cc) + 1 THEN [result |-> TRUE, top |-> i, panic |-> FALSE]
    ELSE IF i + 1 > Len(cc) THEN [result |-> FALSE, top |-> i + 1, panic |-> TRUE]
    ELSE IF isBoundaryChar(cc[i + 1]) THEN
        [result |-> TRUE, top |-> i + 1, panic |-> FALSE]
    ELSE grammarOnBoundaryReads(cc, i + 1, precededByBoundary)

\* Words has been called: ret is the state of its scan before the loop,
\* arg the number of iterations done and what the lookahead of the last one
\* has read.
EnterWords ==
    /\ op = "none"
    /\ op' = "WordsLoop"
    /\ arg' = <<0, [result |-> FALSE, top |-> 0, panic |-> FALSE]>>
    /\ ret' = WordsInit
    /\ UNCHANGED s

\* One iteration of the loop of Words.
IterateWords ==
    LET cc == Explode(Str(s)) IN
    /\ op = "WordsLoop"
    /\ ~ret.panic
    /\ arg[1] < Len(cc)
    /\ arg' = <<arg[1] + 1, grammarOnBoundaryReads(cc, arg[1] + 1, ret.precededByBoundary)>>
    /\ ret' = WordsStep(cc, arg[1] + 1, ret)
    /\ UNCHANGED <<s, op>>

\* The loop is over and Words returns.
ReturnWords ==
    /\ op = "WordsLoop"
    /\ ~ret.panic
    /\ arg[1] = Len(Explode(Str(s)))
    /\ op' = "Words"
    /\ arg' = <<>>
    /\ ret' = [kind |-> "ok", val |-> ret.words]
    /\ UNCHANGED s

NextWordsLoop == EnterWords \/ IterateWords \/ ReturnWords

SpecWordsLoop == InitWords /\ [][NextWordsLoop]_vars

(***************************************************************************)
(* Slice and Char                                                          *)
(***************************************************************************)
abs(n) == IF n < 0 THEN Wrap(0 - n) ELSE n

\* A plausible slip: -1 taken to mean the end of the string, not its last
\* character.
NormalizeNegOffByOne(n, x) == IF x < 0 THEN Wrap(n + x + 1) ELSE x

\* A negative index counts from the end: start = len(cc) + start.
Normalize(n, x) == IF x < 0 THEN Wrap(n + x) ELSE x

\* Whether Go's cc[lo:hi] (0-based, half-open) is inside cc; it panics if not.
InBounds(cc, lo, hi) == 0 <= lo /\ lo <= hi /\ hi <= Len(cc)

\* string(cc[lo:hi]) for bounds that are inside cc
Cut(cc, lo, hi) == Str(SubSeq(cc, lo + 1, hi))

\* A plausible slip: the two halves of a wrapped span in the wrong order.
SliceWrapSwapped(b, start, end) ==
    LET cc == Runes(b)
        n == Len(cc)
    IN  IF abs(start) > n \/ abs(end) > n THEN [kind |-> "err", val |-> <<>>]
        ELSE LET st == Normalize(n, start)
                 en == Normalize(n, end)
             IN  IF st > en THEN
                     IF InBounds(cc, st, n) /\ InBounds(cc, 0, en)
                     THEN [kind |-> "ok", val |-> Cut(cc, 0, en) \o Cut(cc, st, n)]
                     ELSE [kind |-> "panic", val |-> <<>>]
                 ELSE IF InBounds(cc, st, en)
                      THEN [kind |-> "ok", val |-> Cut(cc, st, en)]
                      ELSE [kind |-> "panic", val |-> <<>>]

\* A plausible slip: only start is checked against the length.
SliceNoEndCheck(b, start, end) ==
    LET cc == Runes(b)
        n == Len(cc)
    IN  IF abs(start) > n THEN [kind |-> "err", val |-> <<>>]
        ELSE LET st == Normalize(n, start)
                 en == Normalize(n, end)
             IN  IF st > en THEN
                     IF InBounds(cc, st, n) /\ InBounds(cc, 0, en)
                     THEN [kind |-> "ok", val |-> Cut(cc, st, n) \o Cut(cc, 0, en)]
                     ELSE [kind |-> "panic", val |-> <<>>]
                 ELSE IF InBounds(cc, st, en)
                      THEN [kind |-> "ok", val |-> Cut(cc, st, en)]
                      ELSE [kind |-> "panic", val |-> <<>>]

\* kind is "ok" (val, nil), "err" ("", error) or "panic" (a slice expression
\* out of range stops the program).
Slice(b, start, end) ==
    LET cc == Runes(b)
        n == Len(cc)
    IN  IF abs(start) > n \/ abs(end) > n THEN [kind |-> "err", val |-> <<>>]
        ELSE LET st == Normalize(n, start)
                 en == Normalize(n, end)
             IN  IF st > en THEN
                     IF InBounds(cc, st, n) /\ InBounds(cc, 0, en)
                     THEN [kind |-> "ok", val |-> Cut(cc, st, n) \o Cut(cc, 0, en)]
                     ELSE [kind |-> "panic", val |-> <<>>]
                 ELSE IF InBounds(cc, st, en)
                      THEN [kind |-> "ok", val |-> Cut(cc, st, en)]
                      ELSE [kind |-> "panic", val |-> <<>>]

Char(b, i) == Slice(b, i, Wrap(i + 1))

\* a (1 byte), U+00E9 (2 bytes), U+4E16 (3 bytes)
SliceAlphabet == {97, 233, 19990}

InitSlice ==
    /\ s \in SeqsUpTo(SliceAlphabet, MaxSliceLen)
    /\ op = "none"
    /\ arg = <<>>
    /\ ret = <<>>

CallSlice ==
    \E start \in GoInt : \E end \in GoInt :
        /\ op = "none"
        /\ op' = "Slice"
        /\ arg' = <<start, end>>
        /\ ret' = Slice(Str(s), start, end)
        /\ UNCHANGED s

CallChar ==
    \E i \in GoInt :
        /\ op = "none"
        /\ op' = "Char"
        /\ arg' = <<i>>
        /\ ret' = Char(Str(s), i)
        /\ UNCHANGED s

NextSlice == CallSlice \/ CallChar

SpecSlice == InitSlice /\ [][NextSlice]_vars

(***************************************************************************)
(* Nth                                                                     *)
(***************************************************************************)
\* A plausible slip: the occurrence at the end of the string is forgotten.
nthEmptyStringNoEnd(b, n) ==
    LET rr == Runes(b) IN
    IF abs(n) > Len(rr) THEN -1
    ELSE IF n < 0 THEN Wrap(Wrap(Len(rr) - Wrap(0 - n)) + 1)
    ELSE n - 1

nthEmptyString(b, n) ==
    LET rr == Runes(b) IN
    IF abs(n) > Len(rr) + 1 THEN -1
    ELSE IF n < 0 THEN Wrap(Wrap(Len(rr) - Wrap(0 - n)) + 1)
    ELSE n - 1

\* A plausible slip: the byte position is returned, not the character's.
RECURSIVE nthFirstFromBytePos(_, _, _, _, _, _)
nthFirstFromBytePos(b, subStr, n, i, charPos, seen) ==
    IF i >= Len(b) THEN -1
    ELSE IF i + Len(subStr) > Len(b) THEN -1
    ELSE LET hit == SubSeq(b, i + 1, i + Len(subStr)) = subStr
             seen2 == IF hit THEN seen + 1 ELSE seen
         IN  IF hit /\ seen2 = n THEN i
             ELSE nthFirstFromBytePos(b, subStr, n, i + DecodeRune(b, i + 1).size,
                                      charPos + 1, seen2)

\* The loop of nthFirst from byte offset i (0-based, the start of a
\* character) on: range s steps from one character's first byte to the next.
RECURSIVE nthFirstFrom(_, _, _, _, _, _)
nthFirstFrom(b, subStr, n, i, charPos, seen) ==
    IF i >= Len(b) THEN -1
    ELSE IF i + Len(subStr) > Len(b) THEN -1
    ELSE LET hit == SubSeq(b, i + 1, i + Len(subStr)) = subStr
             seen2 == IF hit THEN seen + 1 ELSE seen
         IN  IF hit /\ seen2 = n THEN charPos
             ELSE nthFirstFrom(b, subStr, n, i + DecodeRune(b, i + 1).size,
                               charPos + 1, seen2)

nthFirst(b, subStr, n) == nthFirstFrom(b, subStr, n, 0, 0, 0)

\* The loop of nthLast from character index i (0-based) down to 0.
RECURSIVE nthLastFrom(_, _, _, _, _, _)
nthLastFrom(rr, subStr, subLen, n, i, seen) ==
    IF i < 0 THEN -1
    ELSE LET hit == Str(SubSeq(rr, i + 1, i + subLen)) = subStr
             seen2 == IF hit THEN seen + 1 ELSE seen
         IN  IF hit /\ seen2 = n THEN i
             ELSE nthLastFrom(rr, subStr, subLen, n, i - 1, seen2)

nthLast(b, subStr, n) ==
    LET rr == Runes(b)
        subLen == Len_(subStr)
    IN  nthLastFrom(rr, subStr, subLen, n, Len(rr) - subLen, 0)

Nth(b, subStr, n) ==
    IF n = 0 THEN -1
    ELSE IF Len_(subStr) > Len_(b) THEN -1
    ELSE IF subStr = <<>> THEN nthEmptyString(b, n)
    ELSE IF n < 0 THEN nthLast(b, subStr, Wrap(0 - n))
    ELSE nthFirst(b, subStr, n)

\* a (1 byte), U+4E16 (3 bytes)
NthAlphabet == {97, 19990}

\* "hi", the text of the examples in the comment on Nth
Hi == <<104, 105>>

InitNth ==
    /\ s \in SeqsUpTo(NthAlphabet, MaxNthLen) \cup {Hi}
    /\ op = "none"
    /\ arg = <<>>
    /\ ret = <<>>

CallNth ==
    \E subStr \in SeqsUpTo(NthAlphabet, MaxSubLen) : \E n \in GoInt :
        /\ op = "none"
        /\ op' = "Nth"
        /\ arg' = <<subStr, n>>
        /\ ret' = Nth(Str(s), Str(subStr), n)
        /\ UNCHANGED s

NextNth == CallNth

SpecNth == InitNth /\ [][NextNth]_vars

(***************************************************************************)
(* SplitBefore, SplitBeforeN and ReverseSlice                              *)
(***************************************************************************)
\* A plausible slip: the slice is left as the loop built it, last piece first.
ReverseSliceForgotten(ss) == ss

\* The loop of ReverseSlice: L and R are Go's 0-based indices.
RECURSIVE ReverseLoop(_, _, _)
ReverseLoop(ss, L, R) ==
    IF L >= R THEN ss
    ELSE ReverseLoop([ss EXCEPT ![L + 1] = ss[R + 1], ![R + 1] = ss[L + 1]],
                     L + 1, R - 1)

ReverseSlice(ss) == ReverseLoop(ss, 0, Len(ss) - 1)

\* A plausible slip: the loop stops one piece late (len(subStr) == n).
RECURSIVE SplitLoopBreakLate(_, _, _, _, _)
SplitLoopBreakLate(b, sep, n, i, subStr) ==
    IF i < 0 THEN [s |-> b, subStr |-> subStr]
    ELSE IF Len(subStr) = n THEN [s |-> b, subStr |-> subStr]
    ELSE IF Len(b) < Len(sep) THEN [s |-> b, subStr |-> subStr]
    ELSE IF Len(b) - (i + 1) < Len(sep) THEN
        SplitLoopBreakLate(b, sep, n, i - 1, subStr)
    ELSE IF SubSeq(b, i + 1, i + Len(sep)) = sep THEN
        SplitLoopBreakLate(SubSeq(b, 1, i), sep, n, i - 1,
                           Append(subStr, SubSeq(b, i + 1, Len(b))))
    ELSE SplitLoopBreakLate(b, sep, n, i - 1, subStr)

\* The loop of SplitBeforeN from byte index i (0-based) down to 0: b is what
\* is left of s, subStr the pieces cut off so far, last piece first.
\* A plausible slip: the piece starts behind sep, as the pieces of
\* strings.Split do.
RECURSIVE SplitLoopDropsSep(_, _, _, _, _)
SplitLoopDropsSep(b, sep, n, i, subStr) ==
    IF i < 0 THEN [s |-> b, subStr |-> subStr]
    ELSE IF Len(subStr) = Wrap(n - 1) THEN [s |-> b, subStr |-> subStr]
    ELSE IF Len(b) < Len(sep) THEN [s |-> b, subStr |-> subStr]
    ELSE IF Len(b) - (i + 1) < Len(sep) THEN SplitLoopDropsSep(b, sep, n, i - 1, subStr)
    ELSE IF SubSeq(b, i + 1, i + Len(sep)) = sep THEN
        SplitLoopDropsSep(SubSeq(b, 1, i), sep, n, i - 1,
                          Append(subStr, SubSeq(b, i + Len(sep) + 1, Len(b))))
    ELSE SplitLoopDropsSep(b, sep, n, i - 1, subStr)

RECURSIVE SplitLoop(_, _, _, _, _)
SplitLoop(b, sep, n, i, subStr) ==
    IF i < 0 THEN [s |-> b, subStr |-> subStr]
    ELSE IF Len(subStr) = Wrap(n - 1) THEN [s |-> b, subStr |-> subStr]
    ELSE IF Len(b) < Len(sep) THEN [s |-> b, subStr |-> subStr]
    ELSE IF Len(b) - (i + 1) < Len(sep) THEN SplitLoop(b, sep, n, i - 1, subStr)
    ELSE IF SubSeq(b, i + 1, i + Len(sep)) = sep THEN
        SplitLoop(SubSeq(b, 1, i), sep, n, i - 1,
                  Append(subStr, SubSeq(b, i + 1, Len(b))))
    ELSE SplitLoop(b, sep, n, i - 1, subStr)

\* A plausible slip: n is not decremented, so one character too many is
\* split off.
splitBeforeEmptySepNoDecrement(b, n) ==
    IF b = <<>> THEN <<>>
    ELSE IF n < 0 THEN Explode(b)
    ELSE LET rr == Runes(b) IN
         IF n > Len(rr) THEN Explode(b)
         ELSE <<Str(SubSeq(rr, 1, Len(rr) - n))>>
                  \o [k \in 1 .. n |-> UTF8(rr[(Len(rr) - n) + k])]

splitBeforeEmptySep(b, n) ==
    IF b = <<>> THEN <<>>
    ELSE IF n < 0 THEN Explode(b)
    ELSE LET rr == Runes(b) IN
         IF n > Len(rr) THEN Explode(b)
         ELSE LET m == Wrap(n - 1) IN
              <<Str(SubSeq(rr, 1, Len(rr) - m))>>
                  \o [k \in 1 .. m |-> UTF8(rr[(Len(rr) - m) + k])]

SplitBeforeN(b, sep, n) ==
    IF n = 0 THEN <<>>
    ELSE IF sep = <<>> THEN splitBeforeEmptySep(b, n)
    ELSE LET r == SplitLoop(b, sep, n, Len(b) - Len(sep), <<>>) IN
         ReverseSlice(Append(r.subStr, r.s))

SplitBefore(b, sep) == SplitBeforeN(b, sep, -1)

\* comma (1 byte), U+4E16 (3 bytes)
SplitAlphabet == {44, 19990}

InitSplit ==
    /\ s \in SeqsUpTo(SplitAlphabet, MaxSplitLen)
    /\ op = "none"
    /\ arg = <<>>
    /\ ret = <<>>

CallSplitBefore ==
    \E sep \in SeqsUpTo(SplitAlphabet, MaxSepLen) :
        /\ op = "none"
        /\ op' = "SplitBefore"
        /\ arg' = <<sep>>
        /\ ret' = SplitBefore(Str(s), Str(sep))
        /\ UNCHANGED s

CallSplitBeforeN ==
    \E sep \in SeqsUpTo(SplitAlphabet, MaxSepLen) : \E n \in GoInt :
        /\ op = "none"
        /\ op' = "SplitBeforeN"
        /\ arg' = <<sep, n>>
        /\ ret' = SplitBeforeN(Str(s), Str(sep), n)
        /\ UNCHANGED s

NextSplit == CallSplitBefore \/ CallSplitBeforeN

SpecSplit == InitSplit /\ [][NextSplit]_vars

(***************************************************************************)
(* CharSet, WordSet, CharsByOccurrence, WordsByOccurrence and OccMap       *)
(***************************************************************************)
\* unicode.ToLower on Basic Latin and Latin-1; the other code points of the
\* texts below have no lower case.
ToLowerRune(r) ==
    IF r >= 65 /\ r <= 90 THEN r + 32
    ELSE IF r >= 192 /\ r <= 222 /\ r # 215 THEN r + 32
    ELSE r

\* strings.ToLower
ToLower(b) == LET rr == Runes(b) IN Str([k \in DOMAIN rr |-> ToLowerRune(rr[k])])

\* The state of makeSet before its loop; seen is the set of keys mapped to
\* true.
makeSetInit == [set |-> <<>>, seen |-> {}]

\* A plausible slip: the element is looked up in lower case but appended as
\* it was given.
makeSetStepKeepsGiven(e, fold, st) ==
    LET x == IF fold THEN ToLower(e) ELSE e IN
    IF x \in st.seen THEN st
    ELSE [set |-> Append(st.set, e), seen |-> st.seen \cup {x}]

\* One iteration of the loop of makeSet, on the element e of ss.
makeSetStep(e, fold, st) ==
    LET x == IF fold THEN ToLower(e) ELSE e IN
    IF x \in st.seen THEN st
    ELSE [set |-> Append(st.set, x), seen |-> st.seen \cup {x}]

RECURSIVE makeSetScan(_, _, _)
makeSetScan(ss, fold, k) ==
    IF k = 0 THEN makeSetInit
    ELSE makeSetStep(ss[k], fold, makeSetScan(ss, fold, k - 1))

makeSet(ss, fold) == makeSetScan(ss, fold, Len(ss)).set

CharSet(b, fold) == makeSet(Explode(b), fold)

\* The result of Words or, if Words panics, the panic.
WordSet(b, fold) ==
    LET w == Words(b) IN
    IF w.kind = "panic" THEN w ELSE [kind |-> "ok", val |-> makeSet(w.val, fold)]

\* A plausible slip: the entry is set to one instead of being incremented.
occsStepSetsOne(e, fold, occs) ==
    LET x == IF fold THEN ToLower(e) ELSE e IN
    [y \in DOMAIN occs \cup {x} |-> IF y = x THEN 1 ELSE occs[y]]

\* One iteration of the first loop of occurrences: occs[s]++, where a key
\* that is not in the map reads as zero.  occs is a function from keys to
\* counts.
occsStep(e, fold, occs) ==
    LET x == IF fold THEN ToLower(e) ELSE e IN
    [y \in DOMAIN occs \cup {x} |->
        IF y = x THEN Wrap((IF x \in DOMAIN occs THEN occs[x] ELSE 0) + 1)
        ELSE occs[y]]

RECURSIVE occsScan(_, _, _)
occsScan(ss, fold, k) ==
    IF k = 0 THEN <<>> ELSE occsStep(ss[k], fold, occsScan(ss, fold, k - 1))

\* The orders in which a range over the map occs may visit its keys: Go
\* leaves the order unspecified, so every order is possible.
RangeOrders(occs) ==
    {o \in [1 .. Cardinality(DOMAIN occs) -> DOMAIN occs] :
        \A i, j \in DOMAIN o : i # j => o[i] # o[j]}

\* The OccMaps occurrences may return: one for each order of the range.
occurrences(ss, fold) ==
    LET occs == occsScan(ss, fold, Len(ss)) IN
    {[k \in DOMAIN o |-> [SubStr |-> o[k], N |-> occs[o[k]]]] : o \in RangeOrders(occs)}

CharsByOccurrence(b, fold) == occurrences(Explode(b), fold)

\* Words does not panic on the texts below: see CallWordsByOccurrence.
WordsByOccurrence(b, fold) == occurrences(Words(b).val, fold)

\* OccMap.Len
OccMapLen(om) == Len(om)

\* A plausible slip: the comparison the other way round, least frequent
\* first.
LessAscending(om, i, j) == om[i + 1].N < om[j + 1].N

\* OccMap.Less; i and j are Go's 0-based indices.
Less(om, i, j) == om[i + 1].N > om[j + 1].N

\* OccMap.Swap
Swap(om, i, j) == [om EXCEPT ![i + 1] = om[j + 1], ![j + 1] = om[i + 1]]

\* sort.Sort(om), which sees om through Len, Less and Swap only.  For fewer
\* than 12 entries it is the insertion sort
\*   for i := 1; i < n; i++ { for j := i; j > 0 && Less(j, j-1); j-- { Swap(j, j-1) } }
RECURSIVE sortInner(_, _)
sortInner(om, j) ==
    IF j > 0 /\ Less(om, j, j - 1) THEN sortInner(Swap(om, j, j - 1), j - 1)
    ELSE om

RECURSIVE sortOuter(_, _)
sortOuter(om, i) ==
    IF i < OccMapLen(om) THEN sortOuter(sortInner(om, i), i + 1) ELSE om

Sort(om) == sortOuter(om, 1)

(***************************************************************************)
(* The calls on the sets and the occurrences                               *)
(***************************************************************************)
\* a, A, U+00C9 (two bytes, lower case U+00E9), space
SetAlphabet == {97, 65, 201, 32}

InitSet ==
    /\ s \in SeqsUpTo(SetAlphabet, MaxSetLen)
    /\ op = "none"
    /\ arg = <<>>
    /\ ret = <<>>

CallCharSet ==
    /\ op = "none"
    /\ \E fold \in BOOLEAN :
        /\ arg' = <<fold>>
        /\ ret' = [kind |-> "ok", val |-> CharSet(Str(s), fold)]
    /\ op' = "CharSet"
    /\ UNCHANGED s

CallWordSet ==
    /\ op = "none"
    /\ \E fold \in BOOLEAN :
        /\ arg' = <<fold>>
        /\ ret' = WordSet(Str(s), fold)
    /\ op' = "WordSet"
    /\ UNCHANGED s

CallCharsByOccurrence ==
    /\ op = "none"
    /\ \E fold \in BOOLEAN :
        /\ arg' = <<fold>>
        /\ \E om \in CharsByOccurrence(Str(s), fold) : ret' = [kind |-> "ok", val |-> om]
    /\ op' = "CharsByOccurrence"
    /\ UNCHANGED s

CallWordsByOccurrence ==
    /\ op = "none"
    /\ \E fold \in BOOLEAN :
        /\ arg' = <<fold>>
        /\ IF Words(Str(s)).kind = "panic" THEN ret' = Words(Str(s))
           ELSE \E om \in WordsByOccurrence(Str(s), fold) :
                    ret' = [kind |-> "ok", val |-> om]
    /\ op' = "WordsByOccurrence"
    /\ UNCHANGED s

\* The caller sorts the OccMap it was returned: sort.Sort(got).  arg keeps
\* fold and gains the OccMap as it was returned.
CallSort ==
    /\ op \in {"CharsByOccurrence", "WordsByOccurrence"}
    /\ ret.kind = "ok"
    /\ op' = "Sort"
    /\ arg' = <<arg[1], ret.val>>
    /\ ret' = [kind |-> "ok", val |-> Sort(ret.val)]
    /\ UNCHANGED s

NextSet ==
    \/ CallCharSet
    \/ CallWordSet
    \/ CallCharsByOccurrence
    \/ CallWordsByOccurrence
    \/ CallSort

SpecSet == InitSet /\ [][NextSet]_vars

(***************************************************************************)
(* PadLeft, PadRight and PadToLongest                                      *)
(***************************************************************************)
\* strings.Repeat(b, count): count copies of b; a negative count panics.
\* Its output-length overflow check and the allocation limit of the run time
\* are not modelled: a count they would reject yields that many copies.
RECURSIVE Copies(_, _)
Copies(b, count) == IF count <= 0 THEN <<>> ELSE b \o Copies(b, count - 1)

Repeat(b, count) ==
    IF count < 0 THEN [kind |-> "panic", val |-> <<>>]
    ELSE [kind |-> "ok", val |-> Copies(b, count)]

PadLeft(b, padChar, length) ==
    LET diff == Wrap(length - Len(Runes(b))) IN
    IF diff <= 0 THEN [kind |-> "ok", val |-> b]
    ELSE LET rep == Repeat(UTF8(padChar), diff) IN
         IF rep.kind = "panic" THEN rep ELSE [kind |-> "ok", val |-> rep.val \o b]

PadRight(b, padChar, length) ==
    LET diff == Wrap(length - Len(Runes(b))) IN
    IF diff <= 0 THEN [kind |-> "ok", val |-> b]
    ELSE LET rep == Repeat(UTF8(padChar), diff) IN
         IF rep.kind = "panic" THEN rep ELSE [kind |-> "ok", val |-> b \o rep.val]

\* A plausible slip: the byte length is measured, not the character count.
longestStepBytes(e, longest) ==
    LET length == Len(e) IN IF length > longest THEN length ELSE longest

\* One iteration of the first loop of PadToLongest, on the element e of ss.
longestStep(e, longest) ==
    LET length == Len(Runes(e)) IN IF length > longest THEN length ELSE longest

RECURSIVE longestScan(_, _)
longestScan(ss, k) ==
    IF k = 0 THEN 0 ELSE longestStep(ss[k], longestScan(ss, k - 1))

\* One iteration of the second loop of PadToLongest, at 1-based position i:
\* ss[i] += strings.Repeat(string(padChar), diff) writes into the array the
\* caller's slice refers to.
padStep(st, i, padChar, longest) ==
    IF st.panic THEN st
    ELSE LET diff == Wrap(longest - Len(Runes(st.ss[i])))
             rep == Repeat(UTF8(padChar), diff)
         IN  IF rep.kind = "panic" THEN [st EXCEPT !.panic = TRUE]
             ELSE [st EXCEPT !.ss[i] = @ \o rep.val]

RECURSIVE padScan(_, _, _, _)
padScan(ss, k, padChar, longest) ==
    IF k = 0 THEN [ss |-> ss, panic |-> FALSE]
    ELSE padStep(padScan(ss, k - 1, padChar, longest), k, padChar, longest)

\* ss is the caller's slice after the call; val is the slice returned, which
\* is that same slice.
PadToLongest(ss, padChar) ==
    LET longest == longestScan(ss, Len(ss))
        st == padScan(ss, Len(ss), padChar, longest)
    IN  [kind |-> IF st.panic THEN "panic" ELSE "ok", val |-> st.ss, ss |-> st.ss]

(***************************************************************************)
(* The calls on PadLeft and PadRight, and the calls on PadToLongest        *)
(***************************************************************************)
\* a (1 byte), U+4E16 (3 bytes)
PadAlphabet == {97, 19990}

\* space (1 byte), U+754C (3 bytes)
PadChars == {32, 30028}

InitPad ==
    /\ s \in SeqsUpTo(PadAlphabet, MaxPadLen)
    /\ op = "none"
    /\ arg = <<>>
    /\ ret = <<>>

CallPadLeft ==
    \E padChar \in PadChars : \E length \in GoInt :
        /\ op = "none"
        /\ op' = "PadLeft"
        /\ arg' = <<padChar, length>>
        /\ ret' = PadLeft(Str(s), padChar, length)
        /\ UNCHANGED s

CallPadRight ==
    \E padChar \in PadChars : \E length \in GoInt :
        /\ op = "none"
        /\ op' = "PadRight"
        /\ arg' = <<padChar, length>>
        /\ ret' = PadRight(Str(s), padChar, length)
        /\ UNCHANGED s

NextPad == CallPadLeft \/ CallPadRight

SpecPad == InitPad /\ [][NextPad]_vars

\* The caller of PadToLongest holds a slice of texts: here s is a sequence of
\* sequences of code points, each one of PadTexts (texts of no, one and two
\* characters of one and three bytes).
PadTexts == {<<>>, <<97>>, <<19990>>, <<97, 19990>>, <<19990, 19990>>}

InitPadToLongest ==
    /\ s \in SeqsUpTo(PadTexts, MaxPadCount)
    /\ op = "none"
    /\ arg = <<>>
    /\ ret = <<>>

\* arg keeps the strings as they were passed; s becomes what the caller's
\* slice holds after the call.
CallPadToLongest ==
    \E padChar \in PadChars :
        LET ss == [k \in DOMAIN s |-> Str(s[k])]
            r == PadToLongest(ss, padChar)
        IN  /\ op = "none"
            /\ op' = "PadToLongest"
            /\ arg' = <<ss, padChar>>
            /\ ret' = [kind |-> r.kind, val |-> r.val]
            /\ s' = [k \in DOMAIN r.ss |-> Runes(r.ss[k])]

NextPadToLongest == CallPadToLongest

SpecPadToLongest == InitPadToLongest /\ [][NextPadToLongest]_vars

(***************************************************************************)
(* Every call of the package on every text                                 *)
(***************************************************************************)
Init == InitWords \/ InitSlice \/ InitNth \/ InitSplit \/ InitSet \/ InitPad

Next == NextWords \/ NextSlice \/ NextNth \/ NextSplit \/ NextSet \/ NextPad
            \/ NextWordsLoop

Spec == Init /\ [][Next]_vars

(***************************************************************************)
(* The vocabulary of the properties: characters classified by code point.  *)
(***************************************************************************)
IsGrammarMark(r) ==
    r \in {33, 63, 44, 46, 39, 34, 91, 93, 40, 41, 42, 126, 123, 125, 58, 59,
           45, 60, 62, 43, 61, 124, 37, 38, 64, 35, 36, 94, 92, 96}

\* whitespace, en dash, em dash, forward slash
IsBoundaryMark(r) == IsSpace(r) \/ r \in {8211, 8212, 47}

IsOrdinary(r) == ~IsGrammarMark(r) /\ ~IsBoundaryMark(r)

\* s[p .. q] is a run of grammar marks with an ordinary character directly
\* before it and an ordinary character directly after it.
InnerRun(p, q) ==
    /\ 2 <= p /\ p <= q /\ q < Len(s)
    /\ IsOrdinary(s[p - 1])
    /\ \A k \in p .. q : IsGrammarMark(s[k])
    /\ IsOrdinary(s[q + 1])

(***************************************************************************)
(* Properties of Words and WordCount (under SpecWords)                     *)
(***************************************************************************)
\* C1: for every input string, WordCount returns the number of tokens that
\* Words returns for the same string (the empty string, boundary-only strings
\* and grammar marks in any position included).
ThmC1_WordCountIsLenWords ==
    op = "WordCount" =>
        LET w == Words(Str(s)) IN w.kind = "ok" /\ ret = Len(w.val)

\* WordCount has been called on a string that holds a grammar mark and a
\* boundary character, and it counted two words or more.
WitC1_CountedAmongMarks ==
    /\ op = "WordCount"
    /\ ret >= 2
    /\ \E k \in DOMAIN s : IsGrammarMark(s[k])
    /\ \E k \in DOMAIN s : IsBoundaryMark(s[k])

\* C2: every token Words returns is non-empty, holds no boundary character
\* and neither begins nor ends with a grammar mark.
ThmC2_TokensWellFormed ==
    op = "Words" =>
        /\ ret.kind = "ok"
        /\ \A t \in DOMAIN ret.val :
              LET rr == Runes(ret.val[t]) IN
              /\ Len(rr) > 0
              /\ \A k \in DOMAIN rr : ~IsBoundaryMark(rr[k])
              /\ ~IsGrammarMark(rr[1])
              /\ ~IsGrammarMark(rr[Len(rr)])

\* Words has been called on a string that begins and ends with a grammar
\* mark and returned a token that keeps a grammar mark inside.
WitC2_MarksAtEdgesAndInside ==
    /\ op = "Words"
    /\ Len(s) >= 2
    /\ IsGrammarMark(s[1])
    /\ IsGrammarMark(s[Len(s)])
    /\ \E t \in DOMAIN ret.val :
          \E k \in DOMAIN Runes(ret.val[t]) : IsGrammarMark(Runes(ret.val[t])[k])

\* C3: a run of grammar marks directly between two ordinary characters is
\* kept and does not split the word: the tokens of the whole string are the
\* tokens of the part before the run and the tokens of the part after it,
\* with the last token of the former, the run and the first token of the
\* latter joined into one token.
ThmC3_InnerRunKept ==
    op = "Words" =>
        \A p \in DOMAIN s : \A q \in DOMAIN s :
            InnerRun(p, q) =>
                LET A == Words(Str(SubSeq(s, 1, p - 1))).val
                    B == Words(Str(SubSeq(s, q + 1, Len(s)))).val
                    G == Str(SubSeq(s, p, q))
                IN  /\ Len(A) >= 1
                    /\ Len(B) >= 1
                    /\ ret.val = SubSeq(A, 1, Len(A) - 1)
                                   \o <<A[Len(A)] \o G \o B[1]>>
                                   \o Tail(B)

\* Words has been called on a string with a run of two grammar marks between
\* two ordinary characters.
WitC3_RunOfTwoInside ==
    /\ op = "Words"
    /\ \E p \in DOMAIN s : InnerRun(p, p + 1)

(***************************************************************************)
(* Properties of Slice and Char (under SpecSlice)                          *)
(***************************************************************************)
\* The characters of the span [a, b) of s (0-based), wrapping from the end
\* of s to its beginning when a > b.
Span(a, b) ==
    LET L == Len(s) IN
    IF a <= b THEN [k \in 1 .. (b - a) |-> s[a + k]]
    ELSE [k \in 1 .. ((L - a) + b) |-> IF k <= L - a THEN s[a + k] ELSE s[k - (L - a)]]

FromEnd(x) == IF x < 0 THEN Len(s) + x ELSE x

\* C4: for |start| <= L and |end| <= L, with negative indices replaced by
\* L + index, Slice returns the characters at [start, end) when start <= end
\* and those at [start, L) followed by those at [0, end) when start > end.
ThmC4_SliceSpan ==
    op = "Slice" =>
        ((MathAbs(arg[1]) <= Len(s) /\ MathAbs(arg[2]) <= Len(s)) =>
            /\ ret.kind = "ok"
            /\ ret.val = Str(Span(FromEnd(arg[1]), FromEnd(arg[2]))))

\* Slice(s, -1, 1) on a string of three distinct characters returned the
\* last character followed by the first (the wrap of Slice("Hello", -1, 2)).
WitC4_WrappedSpan ==
    /\ op = "Slice"
    /\ Len(s) = 3
    /\ s[1] # s[2] /\ s[2] # s[3] /\ s[1] # s[3]
    /\ arg = <<-1, 1>>
    /\ ret.kind = "ok"
    /\ ret.val = Str(<<s[3], s[1]>>)

\* C5: Slice returns an error exactly when |start| > L or |end| > L; on every
\* other input it succeeds, with both normalized bounds in [0, L], and never
\* reads outside the character sequence.
CexC5_SliceErrorIffOutOfRange ==
    op = "Slice" =>
        LET out == MathAbs(arg[1]) > Len(s) \/ MathAbs(arg[2]) > Len(s) IN
        /\ ret.kind = "err" <=> out
        /\ ~out => /\ ret.kind = "ok"
                   /\ Normalize(Len(s), arg[1]) \in 0 .. Len(s)
                   /\ Normalize(Len(s), arg[2]) \in 0 .. Len(s)
        /\ ret.kind # "panic"

\* C6: for non-empty s and -L <= i < L, Char returns without error exactly
\* the character at index i (i >= 0) or at index L + i (i < 0).
CexC6_CharInRange ==
    op = "Char" =>
        ((Len(s) > 0 /\ 0 - Len(s) <= arg[1] /\ arg[1] < Len(s)) =>
            /\ ret.kind = "ok"
            /\ ret.val = UTF8(s[FromEnd(arg[1]) + 1]))

\* C7: Char returns an error (no panic, no empty string without an error)
\* for every i with |i| > L and for i = L, so for every i on the empty string.
ThmC7_CharOutOfRangeIsError ==
    op = "Char" =>
        ((MathAbs(arg[1]) > Len(s) \/ arg[1] = Len(s)) => ret.kind = "err")

\* Char has been called on a non-empty string with i = L and returned an
\* error.
WitC7_CharAtLen ==
    /\ op = "Char"
    /\ Len(s) >= 1
    /\ arg[1] = Len(s)
    /\ ret.kind = "err"

(***************************************************************************)
(* Properties of Nth (under SpecNth)                                       *)
(***************************************************************************)
\* The character indices (0-based) at which sub occurs in s, overlapping
\* occurrences included.
Occ(sub) ==
    {k \in 0 .. (Len(s) - Len(sub)) : SubSeq(s, k + 1, k + Len(sub)) = sub}

\* C8: for non-empty subStr and n # 0, with M the increasing list of the
\* character indices at which subStr occurs in s (overlaps included), Nth
\* returns the n-th element of M for n > 0, the |n|-th from the end of M for
\* n < 0, and -1 when M has fewer than |n| elements.
ThmC8_NthOccurrence ==
    op = "Nth" =>
        LET sub == arg[1]
            n == arg[2]
            M == Occ(sub)
        IN  (sub # <<>> /\ n # 0) =>
                IF MathAbs(n) > Cardinality(M) THEN ret = -1
                ELSE /\ ret \in M
                     /\ Cardinality({j \in M : IF n > 0 THEN j < ret ELSE j > ret})
                           = MathAbs(n) - 1

\* Nth has found the second of two overlapping occurrences of a two-character
\* substring behind a multi-byte character: the character index 2, where the
\* byte index is 4.
WitC8_OverlapBehindMultiByte ==
    /\ op = "Nth"
    /\ s = <<19990, 97, 97, 97>>
    /\ arg = <<(<<97, 97>>), 2>>
    /\ ret = 2

\* C9: for the empty subStr, Nth(s, "", n) is n-1 for 1 <= n <= L+1, is
\* L+n+1 for -(L+1) <= n <= -1, and is -1 when |n| > L+1.
CexC9_NthEmptySubStr ==
    (op = "Nth" /\ arg[1] = <<>>) =>
        LET n == arg[2]
            L == Len(s)
        IN  /\ (1 <= n /\ n <= L + 1) => ret = n - 1
            /\ (0 - (L + 1) <= n /\ n <= -1) => ret = L + n + 1
            /\ MathAbs(n) > L + 1 => ret = -1

\* C10: the result of Nth is -1 or a character index in [0, L], and it is -1
\* whenever n = 0 or subStr has more characters than s.
CexC10_NthResultRange ==
    op = "Nth" =>
        /\ ret = -1 \/ ret \in 0 .. Len(s)
        /\ (arg[2] = 0 \/ Len(arg[1]) > Len(s)) => ret = -1

(***************************************************************************)
(* Properties of SplitBefore and SplitBeforeN (under SpecSplit)            *)
(***************************************************************************)
\* Whether the characters sep occur in the characters piece from the 0-based
\* character index k on.
OccursAt(piece, sep, k) ==
    k + Len(sep) <= Len(piece) /\ SubSeq(piece, k + 1, k + Len(sep)) = sep

\* C11: for non-empty sep, SplitBefore cuts s before each instance of sep:
\* no returned piece holds an occurrence of sep that starts after the piece's
\* first character.
CexC11_CutBeforeEverySep ==
    (op = "SplitBefore" /\ arg[1] # <<>>) =>
        \A t \in DOMAIN ret :
            \A k \in 1 .. Len(Runes(ret[t])) : ~OccursAt(Runes(ret[t]), arg[1], k)

\* C12: for non-empty sep and n # 0, every piece SplitBeforeN returns except
\* the first begins with sep.
ThmC12_LaterPiecesBeginWithSep ==
    (op = "SplitBeforeN" /\ arg[1] # <<>> /\ arg[2] # 0) =>
        \A t \in DOMAIN ret : t >= 2 => OccursAt(Runes(ret[t]), arg[1], 0)

\* SplitBeforeN has cut a text into three pieces or more, of which the
\* first does not begin with sep.
WitC12_ThreePieces ==
    /\ op = "SplitBeforeN"
    /\ arg[1] # <<>>
    /\ Len(ret) >= 3
    /\ ~OccursAt(Runes(ret[1]), arg[1], 0)

\* C13: SplitBeforeN returns nothing when n = 0 and at most n pieces when
\* n > 0; when n < 0 the pieces are not capped: the result is the result for
\* every n larger than its number of pieces.
ThmC13_PieceCountCapped ==
    op = "SplitBeforeN" =>
        /\ arg[2] = 0 => ret = <<>>
        /\ arg[2] > 0 => Len(ret) <= arg[2]
        /\ arg[2] < 0 =>
              \A m \in GoInt :
                  m > Len(ret) => SplitBeforeN(Str(s), Str(arg[1]), m) = ret

\* SplitBeforeN with a non-empty sep and n = 2 has returned two pieces of a
\* text that the uncapped call cuts into three or more.
WitC13_CapReached ==
    /\ op = "SplitBeforeN"
    /\ arg[1] # <<>>
    /\ arg[2] = 2
    /\ Len(ret) = 2
    /\ Len(SplitBefore(Str(s), Str(arg[1]))) >= 3

\* C14 as claimed: for empty sep and 0 < n < Len(s), SplitBeforeN returns n
\* pieces, every piece but the last a single character and the last piece
\* all the remaining characters.
CexC14_LastPieceHoldsRest ==
    (op = "SplitBeforeN" /\ arg[1] = <<>> /\ 0 < arg[2] /\ arg[2] < Len(s)) =>
        /\ Len(ret) = arg[2]
        /\ \A t \in 1 .. (arg[2] - 1) : ret[t] = UTF8(s[t])
        /\ ret[arg[2]] = Str(SubSeq(s, arg[2], Len(s)))

\* C14 as amended: for empty sep and 0 < n < Len(s), SplitBeforeN returns n
\* pieces, every piece but the first a single character and the first piece
\* all the remaining (leading) characters.
ThmC14_FirstPieceHoldsRest ==
    (op = "SplitBeforeN" /\ arg[1] = <<>> /\ 0 < arg[2] /\ arg[2] < Len(s)) =>
        /\ Len(ret) = arg[2]
        /\ ret[1] = Str(SubSeq(s, 1, (Len(s) - arg[2]) + 1))
        /\ \A t \in 2 .. arg[2] : ret[t] = UTF8(s[(Len(s) - arg[2]) + t])

\* SplitBeforeN(s, "", 3) has been called on a text of four characters, of
\* which the first two differ.
WitC14_ThreeOfFour ==
    /\ op = "SplitBeforeN"
    /\ arg = <<(<<>>), 3>>
    /\ Len(s) = 4
    /\ s[1] # s[2]
    /\ Len(ret) = 3

(***************************************************************************)
(* The sets and the occurrences                                            *)
(***************************************************************************)
\* The elements a set or an occurrence call works on: the characters of s
\* for the character calls, the words of s for the word calls.
ElementsOf(o) ==
    IF o \in {"CharSet", "CharsByOccurrence"} THEN [k \in DOMAIN s |-> UTF8(s[k])]
    ELSE Words(Str(s)).val

\* The element as it is compared: in lower case when fold is set.
KeyOf(e, fold) == IF fold THEN ToLower(e) ELSE e

\* The first position of the key x among the elements ee.
FirstAt(ee, fold, x) ==
    CHOOSE k \in DOMAIN ee :
        /\ KeyOf(ee[k], fold) = x
        /\ \A m \in 1 .. (k - 1) : KeyOf(ee[m], fold) # x

\* C15: CharSet and WordSet return every distinct element once, in the order
\* of first appearance; with fold set, elements that agree in lower case are
\* one element and it is returned in lower case.
ThmC15_SetOfFirstAppearances ==
    (op \in {"CharSet", "WordSet"} /\ ret.kind = "ok") =>
        LET ee == ElementsOf(op)
            out == ret.val
        IN  /\ \A i, j \in DOMAIN out : i # j => out[i] # out[j]
            /\ {out[i] : i \in DOMAIN out} = {KeyOf(ee[k], arg[1]) : k \in DOMAIN ee}
            /\ \A i, j \in DOMAIN out :
                   i < j => FirstAt(ee, arg[1], out[i]) < FirstAt(ee, arg[1], out[j])

\* CharSet with fold set on a text that has A, then another character, then
\* a: two elements came back, a first.
WitC15_FoldedUpperBeforeLower ==
    /\ op = "CharSet"
    /\ arg = <<TRUE>>
    /\ s = <<65, 201, 97>>
    /\ ret.val = <<UTF8(97), UTF8(233)>>

RECURSIVE SumN(_)
SumN(om) == IF om = <<>> THEN 0 ELSE Head(om).N + SumN(Tail(om))

\* C16: the counts of CharsByOccurrence sum to the number of characters of s,
\* those of WordsByOccurrence to WordCount(s); the keys are pairwise
\* distinct and every count is at least 1.
ThmC16_CountsSumToTotal ==
    (op \in {"CharsByOccurrence", "WordsByOccurrence"} /\ ret.kind = "ok") =>
        LET om == ret.val IN
        /\ SumN(om) = IF op = "CharsByOccurrence" THEN Len(s) ELSE WordCount(Str(s))
        /\ \A i, j \in DOMAIN om : i # j => om[i].SubStr # om[j].SubStr
        /\ \A i \in DOMAIN om : om[i].N >= 1

\* WordsByOccurrence with fold set has counted as one word, twice, a word
\* that the text spells once as A and once as a.
WitC16_FoldedWordCountedTwice ==
    /\ op = "WordsByOccurrence"
    /\ arg = <<TRUE>>
    /\ \E i \in DOMAIN ret.val : ret.val[i].N = 2 /\ ret.val[i].SubStr = UTF8(97)
    /\ \E k \in DOMAIN s : s[k] = 65
    /\ \E k \in DOMAIN s : s[k] = 97
    /\ Len(ret.val) = 1

\* The entries of om as a bag: how often each entry occurs.
EntryCount(om, e) == Cardinality({k \in DOMAIN om : om[k] = e})

\* C17: sorting a returned OccMap through Len, Less and Swap yields a
\* permutation of its entries with counts that do not increase from first to
\* last, and Less(i, j) holds exactly when entry i has a strictly larger
\* count than entry j.  The calls themselves return the entries in any order.
ThmC17_SortedByCountDescending ==
    op = "Sort" =>
        LET given == arg[2]
            om == ret.val
        IN  /\ OccMapLen(om) = Len(given)
            /\ \A k \in DOMAIN given : EntryCount(om, given[k]) = EntryCount(given, given[k])
            /\ \A i, j \in DOMAIN om : i < j => om[i].N >= om[j].N
            /\ \A i, j \in DOMAIN om : Less(om, i - 1, j - 1) <=> (om[i].N > om[j].N)

\* An OccMap that was returned with a smaller count before a larger one has
\* been sorted.
WitC17_ReturnedUnsorted ==
    /\ op = "Sort"
    /\ \E i, j \in DOMAIN arg[2] : i < j /\ arg[2][i].N < arg[2][j].N
    /\ ret.val # arg[2]

(***************************************************************************)
(* The length of a slice (under SpecSlice)                                 *)
(***************************************************************************)
\* C18 as claimed: for a <= b with |a| <= L and |b| <= L whose normalized
\* span does not wrap, Slice(s, a, b) returns a string of b - a characters.
CexC18_SliceLengthIsDifference ==
    (/\ op = "Slice"
     /\ arg[1] <= arg[2]
     /\ MathAbs(arg[1]) <= Len(s) /\ MathAbs(arg[2]) <= Len(s)
     /\ FromEnd(arg[1]) <= FromEnd(arg[2])) =>
        ret.kind = "ok" /\ Len_(ret.val) = arg[2] - arg[1]

\* C18 as amended: on those inputs the string returned has as many
\* characters as the normalized bounds are apart, which is b - a when a and b
\* are both negative or both non-negative.
ThmC18_SliceLengthIsNormalizedDifference ==
    (/\ op = "Slice"
     /\ arg[1] <= arg[2]
     /\ MathAbs(arg[1]) <= Len(s) /\ MathAbs(arg[2]) <= Len(s)
     /\ FromEnd(arg[1]) <= FromEnd(arg[2])) =>
        /\ ret.kind = "ok"
        /\ Len_(ret.val) = FromEnd(arg[2]) - FromEnd(arg[1])
        /\ ((arg[1] < 0) <=> (arg[2] < 0)) => Len_(ret.val) = arg[2] - arg[1]

\* Slice(s, -1, 3) on a string of three characters that ends in a three-byte
\* character has returned that one character.
WitC18_NegativeStartToEnd ==
    /\ op = "Slice"
    /\ Len(s) = 3
    /\ s[3] = 19990
    /\ arg = <<-1, 3>>
    /\ ret.kind = "ok"
    /\ Len_(ret.val) = 1
    /\ Len(ret.val) = 3

(***************************************************************************)
(* The empty subStr in "hi" (under SpecNth)                                *)
(***************************************************************************)
\* C19 as claimed: Nth("hi", "", 3) returns -1.
CexC19_ThirdGapOfHiNotFound ==
    (op = "Nth" /\ s = Hi /\ arg = <<(<<>>), 3>>) => ret = -1

\* C19 as amended: Nth("hi", "", 3) returns 2, the position after the last
\* character.
ThmC19_ThirdGapOfHiIsTwo ==
    (op = "Nth" /\ s = Hi /\ arg = <<(<<>>), 3>>) => ret = 2

\* Nth("hi", "", 3) has been called and has returned an index of "hi".
WitC19_ThirdGapOfHiCalled ==
    /\ op = "Nth"
    /\ s = <<104, 105>>
    /\ arg[1] = <<>> /\ arg[2] = 3
    /\ ret \in 0 .. 2

(***************************************************************************)
(* A lone grammar mark inside a word (under SpecWords)                     *)
(***************************************************************************)
\* C20 as claimed: a single grammar mark between two ordinary characters is
\* returned by Words as a token of exactly one character.
CexC20_LoneMarkIsOwnToken ==
    op = "Words" =>
        \A p \in DOMAIN s :
            InnerRun(p, p) => \E t \in DOMAIN ret.val : ret.val[t] = UTF8(s[p])

\* C20 as amended: a single grammar mark between two ordinary characters is
\* kept inside the token that holds both its neighbours, and no token is the
\* mark alone.
ThmC20_LoneMarkStaysInsideWord ==
    op = "Words" =>
        \A p \in DOMAIN s :
            InnerRun(p, p) =>
                /\ \E t \in DOMAIN ret.val :
                       Contains(ret.val[t], Str(<<s[p - 1], s[p], s[p + 1]>>))
                /\ \A t \in DOMAIN ret.val : ret.val[t] # UTF8(s[p])

\* Words has been called on an ordinary character, an apostrophe and a
\* three-byte ordinary character, and returned the text as one token.
WitC20_ApostropheInsideWord ==
    /\ op = "Words"
    /\ s = <<97, 39, 19990>>
    /\ ret.val = <<Str(s)>>

(***************************************************************************)
(* Texts of boundary characters only (under SpecWords)                     *)
(***************************************************************************)
\* C21: for a text made only of boundary characters (whitespace, en dash, em
\* dash, forward slash), the empty text included, Words returns no token and
\* WordCount returns 0.
ThmC21_BoundaryOnlyHasNoWords ==
    (\A k \in DOMAIN s : IsBoundaryMark(s[k])) =>
        /\ op = "Words" => (ret.kind = "ok" /\ ret.val = <<>>)
        /\ op = "WordCount" => ret = 0

\* Words has been called on a space, an em dash and a forward slash.
WitC21_SpaceDashSlash ==
    /\ op = "Words"
    /\ s = <<32, 8212, 47>>
    /\ ret.val = <<>>

(***************************************************************************)
(* Properties of PadLeft and PadRight (under SpecPad)                      *)
(***************************************************************************)
\* C22: PadLeft and PadRight never truncate: when length <= Len(s) the
\* result is s unchanged; otherwise the result has exactly length characters,
\* made of length - Len(s) copies of padChar before s (PadLeft) or after s
\* (PadRight).
CexC22_PadNeverTruncates ==
    op \in {"PadLeft", "PadRight"} =>
        LET L == Len(s)
            length == arg[2]
            pad == Str([k \in 1 .. (length - L) |-> arg[1]])
        IN  /\ length <= L => (ret.kind = "ok" /\ ret.val = Str(s))
            /\ length > L =>
                  /\ ret.kind = "ok"
                  /\ Len_(ret.val) = length
                  /\ ret.val = IF op = "PadLeft" THEN pad \o Str(s) ELSE Str(s) \o pad

\* The same, for the lengths whose difference to Len(s) is an int: it holds
\* there, so the subtraction that wraps is all that breaks C22.
PadNeverTruncatesWithinInt ==
    (op \in {"PadLeft", "PadRight"} /\ arg[2] - Len(s) \in GoInt) =>
        CexC22_PadNeverTruncates

(***************************************************************************)
(* Properties of PadToLongest (under SpecPadToLongest)                     *)
(***************************************************************************)
\* The largest number of characters among the strings ss (0 for none).
MostChars(ss) ==
    IF ss = <<>> THEN 0
    ELSE CHOOSE m \in {Len_(ss[k]) : k \in DOMAIN ss} :
             \A k \in DOMAIN ss : Len_(ss[k]) <= m

\* C23: every string PadToLongest returns has exactly M characters, M the
\* largest character count among the strings passed, and is the string passed
\* at its position followed only by copies of padChar.
ThmC23_AllPaddedToLongest ==
    op = "PadToLongest" =>
        LET given == arg[1]
            M == MostChars(given)
        IN  /\ ret.kind = "ok"
            /\ Len(ret.val) = Len(given)
            /\ \A k \in DOMAIN given :
                  /\ Len_(ret.val[k]) = M
                  /\ ret.val[k] =
                         given[k] \o Str([j \in 1 .. (M - Len_(given[k])) |-> arg[2]])

\* PadToLongest has padded a one-byte character with a three-byte pad
\* character to the length of a text of two three-byte characters.
WitC23_PaddedToMultiByteLongest ==
    /\ op = "PadToLongest"
    /\ arg = <<(<<UTF8(97), Str(<<19990, 19990>>)>>), 30028>>
    /\ ret.val = <<UTF8(97) \o UTF8(30028), Str(<<19990, 19990>>)>>

\* C24: PadToLongest is a pure function: the caller's sequence of strings
\* holds the same strings after the call as before it.
CexC24_PadToLongestLeavesInput ==
    op = "PadToLongest" => [k \in DOMAIN s |-> Str(s[k])] = arg[1]

(***************************************************************************)
(* Words against the scan that drops a grammar run as a whole              *)
(* (under SpecWords)                                                       *)
(***************************************************************************)
\* The last position of the run of grammar marks that starts at i.
RECURSIVE RunEnd(_)
RunEnd(i) ==
    IF i < Len(s) /\ IsGrammarMark(s[i + 1]) THEN RunEnd(i + 1) ELSE i

\* The run of grammar marks that starts at i is absorbed: a boundary precedes
\* the scan position, or the run reaches the end of s, or a boundary
\* character follows the run.
Absorbed(i, precededByBoundary) ==
    \/ precededByBoundary
    \/ RunEnd(i) = Len(s)
    \/ IsBoundaryMark(s[RunEnd(i) + 1])

\* The scan of s from position i on, with the tokens found so far (sequences
\* of code points) and precededByBoundary: an absorbed run is skipped as a
\* whole and leaves precededByBoundary alone, a boundary character sets it,
\* any other character opens a token after a boundary and joins the open
\* token otherwise.
RECURSIVE RunScan(_, _, _)
RunScan(i, tokens, precededByBoundary) ==
    IF i > Len(s) THEN tokens
    ELSE IF IsGrammarMark(s[i]) /\ Absorbed(i, precededByBoundary) THEN
        RunScan(RunEnd(i) + 1, tokens, precededByBoundary)
    ELSE IF IsBoundaryMark(s[i]) THEN RunScan(i + 1, tokens, TRUE)
    ELSE IF precededByBoundary \/ tokens = <<>> THEN
        RunScan(i + 1, Append(tokens, <<s[i]>>), FALSE)
    ELSE RunScan(i + 1, [tokens EXCEPT ![Len(tokens)] = Append(@, s[i])], FALSE)

\* C25: Words, which tests each character of a grammar run on its own,
\* returns exactly the tokens of the scan that drops an absorbed run as a
\* whole without changing precededByBoundary.
ThmC25_WordsIsRunScan ==
    op = "Words" =>
        /\ ret.kind = "ok"
        /\ ret.val = LET tokens == RunScan(1, <<>>, TRUE) IN
                     [t \in DOMAIN tokens |-> Str(tokens[t])]

\* Words has been called on a text in which a run of two grammar marks
\* stands between an ordinary character and a boundary character, and has
\* returned two tokens.
WitC25_RunBeforeBoundaryDropped ==
    /\ op = "Words"
    /\ s = <<97, 39, 39, 32, 19990>>
    /\ ret.val = <<UTF8(97), UTF8(19990)>>

(***************************************************************************)
(* The loop of Words (under SpecWordsLoop)                                 *)
(***************************************************************************)
\* C26: at every step of the scan of Words, idx is the number of tokens
\* opened so far minus one and precededByBoundary = false implies idx >= 0,
\* so words[idx] is never outside words; and the forward scan of
\* grammarOnBoundary ends having read only positions inside cc.
ThmC26_ScanStaysInRange ==
    op = "WordsLoop" =>
        /\ ~ret.panic
        /\ ret.idx = Len(ret.words) - 1
        /\ ~ret.precededByBoundary => (ret.idx >= 0 /\ ret.idx < Len(ret.words))
        /\ ~arg[2].panic
        /\ arg[2].top <= Len(s)
        /\ arg[1] >= 1 =>
              arg[2].result =
                  grammarOnBoundary(Explode(Str(s)), arg[1], WordsScan(Explode(Str(s)), arg[1] - 1).precededByBoundary)

\* The scan is inside its first word at a run of two grammar marks, and the
\* lookahead of the iteration just done has walked over the run up to the
\* last character of the text, which is ordinary.
WitC26_LookaheadToLastCharacter ==
    /\ op = "WordsLoop"
    /\ s = <<97, 39, 39, 19990>>
    /\ arg[1] = 2
    /\ arg[2].top = 4
    /\ ~arg[2].result
    /\ ret.words = <<UTF8(97) \o UTF8(39)>>
    /\ ret.idx = 0

(***************************************************************************)
(* The pieces of SplitBeforeN put together again (under SpecSplit)         *)
(***************************************************************************)
RECURSIVE Joined(_)
Joined(pieces) == IF pieces = <<>> THEN <<>> ELSE Head(pieces) \o Joined(Tail(pieces))

\* C27: for every s, every sep, empty or not, and every n # 0, the pieces
\* SplitBeforeN returns, concatenated in order, are s.
ThmC27_PiecesJoinToText ==
    (op = "SplitBeforeN" /\ arg[2] # 0) => Joined(ret) = Str(s)

\* SplitBeforeN without a cap has cut a text of one- and three-byte
\* characters that begins with sep into an empty piece and two pieces that
\* begin with sep.
WitC27_ThreePiecesOfMultiByteText ==
    /\ op = "SplitBeforeN"
    /\ s = <<44, 19990, 44, 19990>>
    /\ arg = <<(<<44>>), -1>>
    /\ ret = <<(<<>>), Str(<<44, 19990>>), Str(<<44, 19990>>)>>

====
